---- MODULE Spec2Model ----
(***************************************************************************)
(* A model of WriteAheadStore (src/write_ahead_store.py): a log-structured *)
(* key-value store.  Every set/delete appends one record to a log file     *)
(* opened in append mode; an in-memory index (the dict __store) maps a key *)
(* to (offset, is_set); get seeks to the offset and reads the record back; *)
(* recovery rebuilds the index by scanning the log from offset 0.          *)
(*                                                                         *)
(* The log is modelled byte for byte: a file is a sequence of numbers in   *)
(* 0..255, a record is struct.pack("III", ts, klen, vlen) + key + value.   *)
(* Strings are sequences of code points, str.encode() is UTF-8.            *)
(***************************************************************************)
EXTENDS Integers, Sequences, FiniteSets, TLC

\* ------------------------------------------------------------- bounds
\* Appends (complete or partial) the model lets happen to the log.
MaxRecords == 3
\* Injected storage faults per behaviour (SpecFault).
MaxFaults == 1

\* ---------------------------------------------------------- constants
\* struct.calcsize("III"): the read(12) of recovery and get.
HeaderSize == 12
\* Width in bytes of one "I" field of the header.
FieldSize == 4

Procs == {1, 2}
Single == {1}
DefaultPath == "write_ahead.log"
\* A second log file, for set_recovery_file_path.
AltPath == "other.log"
Paths == {DefaultPath, AltPath}
\* The arguments of set_recovery_file_path: a path, or the empty string.
PathArgs == Paths \cup {""}

\* Strings are sequences of code points: "a", and "é" (two bytes in UTF-8).
Keys == {<<97>>, <<233>>}
\* "x" and "yz".
Values == {<<120>>, <<121, 122>>}
\* The value written where one value is enough: "x".
OneValue == {<<120>>}
Empty == <<>>
KeyArgs == Keys \cup {Empty}
ValueArgs == Values \cup {Empty}
\* int(time.time()): one instant, 0x01020304, whose four bytes differ.
Timestamps == {16909060}
\* 2^31 - 1, the largest integer the checker has.
IntMax == 127 * 16777216 + 16777215
\* The longest record of the model, and the places a failed flush can stop at.
MaxRecordLen == HeaderSize + 2 + 2
Cuts == 0..(MaxRecordLen - 1)

Min(a, b) == IF a < b THEN a ELSE b

\* ------------------------------------------------------------- codec
\* One "I" field of struct.pack: 4 bytes, least significant first.
Pack32(n) ==
  << n % 256, (n \div 256) % 256, (n \div 65536) % 256, (n \div 16777216) % 256 >>

\* One "I" field of struct.unpack.  A field of 2^31 or more is longer than any
\* file of the model and is only ever compared with lengths of the file: it is
\* held as IntMax.
Unpack32(b) ==
  IF b[4] >= 128 THEN IntMax
  ELSE b[1] + 256 * b[2] + 65536 * b[3] + 16777216 * b[4]

\* UTF-8 of one code point below 0x800.
Utf8(c) == IF c < 128 THEN << c >> ELSE << 192 + (c \div 64), 128 + (c % 64) >>

RECURSIVE encode(_)
\* str.encode(): the UTF-8 bytes of a string.
encode(s) == IF s = << >> THEN << >> ELSE Utf8(Head(s)) \o encode(Tail(s))

RECURSIVE decode(_)
\* bytes.decode(): strict UTF-8; ok = FALSE is UnicodeDecodeError.  The code
\* points of the model are below 0x800, so no file of the model holds the
\* lead byte of a three- or four-byte form.
decode(b) ==
  IF b = << >> THEN [ok |-> TRUE, text |-> << >>]
  ELSE IF Head(b) < 128
       THEN LET r == decode(Tail(b))
            IN  [ok |-> r.ok, text |-> << Head(b) >> \o r.text]
  ELSE IF /\ Head(b) >= 194 /\ Head(b) <= 223
          /\ Len(b) >= 2 /\ b[2] >= 128 /\ b[2] <= 191
       THEN LET r == decode(SubSeq(b, 3, Len(b)))
            IN  [ok |-> r.ok,
                 text |-> << (Head(b) - 192) * 64 + (b[2] - 128) >> \o r.text]
  ELSE [ok |-> FALSE, text |-> << >>]

\* A faulty variant of pack_record: the value bytes written before the key bytes.
pack_record_value_first(ts, key_bytes, value_bytes) ==
  Pack32(ts) \o Pack32(Len(key_bytes)) \o Pack32(Len(value_bytes))
    \o value_bytes \o key_bytes

\* header = struct.pack("III", ts, len(key_bytes), len(value_bytes));
\* header += key_bytes + value_bytes
pack_record(ts, key_bytes, value_bytes) ==
  Pack32(ts) \o Pack32(Len(key_bytes)) \o Pack32(Len(value_bytes))
    \o key_bytes \o value_bytes

\* f.seek(off); f.read(n): at most n bytes, fewer at the end of the file.
ReadAt(bytes, off, n) ==
  IF off >= Len(bytes) THEN << >>
  ELSE SubSeq(bytes, off + 1, off + Min(n, Len(bytes) - off))

\* --------------------------------------------------------- the index
\* The dict __store as a set of entries.
HasKey(store, key) == \E e \in store : e.key = key
Entry(store, key) == CHOOSE e \in store : e.key = key

\* A faulty variant of StoreSet: the entry is added and an older one is kept.
StoreSetKeepOld(store, key, off, flag) ==
  store \cup {[key |-> key, offset |-> off, is_set |-> flag]}

\* self.__store[key] = (offset, flag)
StoreSet(store, key, off, flag) ==
  {e \in store : e.key # key} \cup {[key |-> key, offset |-> off, is_set |-> flag]}

\* self.__store.pop(key, None)
StorePop(store, key) == {e \in store : e.key # key}

\* ------------------------------------------------------ recovery scan
\* The offset of the next record: offset += 12 + key_length + value_length.
NextOffset(offset, key_length, value_length) ==
  offset + HeaderSize + key_length + value_length

\* A faulty variant of ScanTombstone: the entry of a deleted key is kept.
ScanTombstoneKeep(st, key) == st

\* The else branch of the scan: self.__store.pop(key, None).
ScanTombstone(st, key) == StorePop(st, key)

RECURSIVE scan(_, _, _)
\* The while loop of __recovery over the bytes of the log, from `offset` with the
\* index `st` built so far.  state is "done" when the loop breaks and "corrupted"
\* when it raises; got is the length of the last header read.
scan(bytes, offset, st) ==
  LET header == ReadAt(bytes, offset, HeaderSize)
  IN
  IF header = << >> \/ Len(header) < HeaderSize
  THEN [store |-> st, state |-> "done", offset |-> offset, got |-> Len(header),
        why |-> "none"]
  ELSE
    LET key_length   == Unpack32(SubSeq(header, FieldSize + 1, 2 * FieldSize))
        value_length == Unpack32(SubSeq(header, 2 * FieldSize + 1, 3 * FieldSize))
        key_bytes    == ReadAt(bytes, offset + HeaderSize, key_length)
        key          == decode(key_bytes)
        value_bytes  == ReadAt(bytes, offset + HeaderSize + key_length, value_length)
    IN
    IF Len(key_bytes) < key_length
    THEN [store |-> st, state |-> "corrupted", offset |-> offset,
          got |-> HeaderSize, why |-> "key"]
    ELSE IF ~key.ok
    THEN [store |-> st, state |-> "corrupted", offset |-> offset,
          got |-> HeaderSize, why |-> "decode"]
    ELSE IF value_length > 0
    THEN IF Len(value_bytes) < value_length
         THEN [store |-> st, state |-> "corrupted", offset |-> offset,
               got |-> HeaderSize, why |-> "value"]
         ELSE scan(bytes, NextOffset(offset, key_length, value_length),
                   StoreSet(st, key.text, offset, TRUE))
    ELSE scan(bytes, NextOffset(offset, key_length, value_length),
              ScanTombstone(st, key.text))

\* recovery(): __recovery() inside try/except.  `fault` injects a failure of
\* one step: "open" (the read handle), "lock", "unlock"; "none" injects nothing.
\* The index is emptied before the file is opened, so a failed open or lock
\* leaves it empty.  No exception leaves recovery().
recovery_call(bytes, fault) ==
  LET r == scan(bytes, 0, {})
  IN
  IF fault \in {"open", "lock"}
  THEN [store |-> {}, state |-> "corrupted", got |-> 0, why |-> fault,
        raised |-> FALSE, logs |-> << "error_recovery" >>]
  ELSE IF fault = "unlock"
  THEN [store |-> r.store, state |-> r.state, got |-> r.got, why |-> fault,
        raised |-> FALSE,
        logs |-> IF r.state = "done"
                 THEN << "info_recovery_completed", "error_recovery" >>
                 ELSE << "error_recovery" >>]
  ELSE [store |-> r.store, state |-> r.state, got |-> r.got, why |-> r.why,
        raised |-> FALSE,
        logs |-> IF r.state = "done" THEN << "info_recovery_completed" >>
                 ELSE << "error_recovery" >>]

\* -------------------------------------------------------- validation
\* A faulty variant of invalid_set: only the key is checked.
invalid_set_key_only(key, val) == key = Empty

\* Line 177: `not key or not value` (every argument of the model is a str).
invalid_set(key, val) == key = Empty \/ val = Empty

\* Lines 217 and 266: `not key`.
invalid_key(key) == key = Empty

\* --------------------------------------------------------------- get
NotFound(log) == [found |-> FALSE, out |-> << >>, raised |-> FALSE, logs |-> log]
Raised(log) == [found |-> FALSE, out |-> << >>, raised |-> TRUE, logs |-> log]

\* get(key) on the index `st` and the bytes of the log.  found = FALSE is the
\* return value None.  `fault` injects a failure of one I/O step.
\* A faulty variant of get_call: the key read from the record is not compared
\* with the requested key.
get_call_any_key(st, bytes, key, fault) ==
  IF invalid_key(key) THEN Raised(<< "error_validation" >>)
  ELSE IF ~HasKey(st, key) THEN NotFound(<< "warning_not_found" >>)
  ELSE IF ~Entry(st, key).is_set THEN NotFound(<< "warning_not_set" >>)
  ELSE
    LET offset       == Entry(st, key).offset
        header       == ReadAt(bytes, offset, HeaderSize)
        key_length   == Unpack32(SubSeq(header, FieldSize + 1, 2 * FieldSize))
        value_length == Unpack32(SubSeq(header, 2 * FieldSize + 1, 3 * FieldSize))
        key_bytes    == ReadAt(bytes, offset + HeaderSize, key_length)
        value_bytes  == ReadAt(bytes, offset + HeaderSize + Len(key_bytes), value_length)
    IN IF Len(header) # HeaderSize \/ ~decode(key_bytes).ok
       THEN NotFound(<< "error_get" >>)
       ELSE [found |-> TRUE, out |-> value_bytes, raised |-> FALSE, logs |-> << >>]

get_call(st, bytes, key, fault) ==
  IF invalid_key(key) THEN Raised(<< "error_validation" >>)
  ELSE IF ~HasKey(st, key) THEN NotFound(<< "warning_not_found" >>)
  ELSE IF ~Entry(st, key).is_set THEN NotFound(<< "warning_not_set" >>)
  ELSE IF fault = "open" THEN Raised(<< >>)
  ELSE
    LET offset       == Entry(st, key).offset
        header       == ReadAt(bytes, offset, HeaderSize)
        key_length   == Unpack32(SubSeq(header, FieldSize + 1, 2 * FieldSize))
        value_length == Unpack32(SubSeq(header, 2 * FieldSize + 1, 3 * FieldSize))
        key_bytes    == ReadAt(bytes, offset + HeaderSize, key_length)
        value_bytes  == ReadAt(bytes, offset + HeaderSize + Len(key_bytes), value_length)
        key_decode   == decode(key_bytes)
        body ==
          IF fault \in {"lock", "seek", "read"} THEN NotFound(<< "error_get" >>)
          ELSE IF Len(header) # HeaderSize THEN NotFound(<< "error_get" >>)
          ELSE IF ~key_decode.ok THEN NotFound(<< "error_get" >>)
          ELSE IF key_decode.text = key
          THEN [found |-> TRUE, out |-> value_bytes, raised |-> FALSE, logs |-> << >>]
          ELSE NotFound(<< "error_key_mismatch" >>)
    IN IF fault = "unlock" THEN Raised(body.logs) ELSE body

\* ------------------------------------------------------------- state
VARIABLES
  disk,     \* path -> the bytes of the file
  alive,    \* process -> whether it holds a constructed WriteAheadStore
  store,    \* process -> self.__store, the index (of a process that has ended:
            \* the index it had when it ended)
  path,     \* process -> self.__write_ahead_log_file_path
  pos,      \* process -> the file position of self.__file, what tell() returns
  ret,      \* process -> the outcome of its last call
  written,  \* history: the appends to the log, in file order
  faults    \* history: the number of faults injected so far

vars == << disk, alive, store, path, pos, ret, written, faults >>

\* The state of the threads inside calls, used where calls are followed line by
\* line; it stays as Init sets it where each call is one step.
VARIABLES
  pc,       \* thread -> the line of the call it stands at
  loc,      \* thread -> the call it makes, its local variables and its result
  mutex,    \* process -> the thread that holds self.__thread_lock, or 0
  exlock,   \* process -> whether self.__file holds the exclusive file lock
  shlock,   \* thread -> whether the read handle it opened holds the shared lock
  updates   \* history: the index updates of set and delete, in the order made

tvars == << pc, loc, mutex, exlock, shlock, updates >>
allvars == << vars, tvars >>

\* The outcome of a call: what it returned (ok for set/delete, found and out for
\* get), whether an exception reached the caller, what it logged, and for a
\* recovery pass the state it ended in and the length of its last header read.
Outcome(op, key, val, ok, found, out, raised, logs, state, got, fault) ==
  [op |-> op, key |-> key, val |-> val, ok |-> ok, found |-> found, out |-> out,
   raised |-> raised, logs |-> logs, state |-> state, got |-> got, fault |-> fault]

\* The reads of every key on an index and a file.
Reads(st, bytes) ==
  [k \in Keys |->
     LET g == get_call(st, bytes, k, "none") IN [found |-> g.found, out |-> g.out]]

\* __init__ (lines 28-33): an empty index, the append handle opened in "ab+"
\* (positioned at the end of the file), then recovery().
Construct(p) ==
  LET r == recovery_call(disk[DefaultPath], "none")
  IN /\ alive' = [alive EXCEPT ![p] = TRUE]
     /\ path' = [path EXCEPT ![p] = DefaultPath]
     /\ pos' = [pos EXCEPT ![p] = Len(disk[DefaultPath])]
     /\ store' = [store EXCEPT ![p] = r.store]
     /\ ret' = [ret EXCEPT ![p] =
          Outcome("init", Empty, Empty, TRUE, FALSE, << >>, r.raised, r.logs,
                  r.state, r.got, "none")]

\* The threads of the two processes: threads 1 and 2 share the store of process 1,
\* thread 3 has the store of process 2.
Threads == {1, 2, 3}
ProcOf(t) == IF t = 3 THEN 2 ELSE 1
ThreadsOf(p) == {t \in Threads : ProcOf(t) = p}

\* The locals of a thread that has made no call.
NoCall ==
  [op |-> "none", key |-> Empty, val |-> Empty, offset |-> 0, idx |-> 0,
   ok |-> FALSE, found |-> FALSE, out |-> << >>, raised |-> FALSE, state |-> "none"]

\* No thread is inside a call and no lock is held.
ThreadsIdle ==
  /\ pc = [t \in Threads |-> "idle"]
  /\ loc = [t \in Threads |-> NoCall]
  /\ mutex = [p \in Procs |-> 0]
  /\ exlock = [p \in Procs |-> FALSE]
  /\ shlock = [t \in Threads |-> FALSE]
  /\ updates = << >>

\* Process 1 has constructed its store on a log that does not exist yet.
Init ==
  /\ disk = [f \in Paths |-> << >>]
  /\ alive = [p \in Procs |-> p = 1]
  /\ store = [p \in Procs |-> {}]
  /\ path = [p \in Procs |-> DefaultPath]
  /\ pos = [p \in Procs |-> 0]
  /\ ret = [p \in Procs |->
       IF p = 1
       THEN Outcome("init", Empty, Empty, TRUE, FALSE, << >>, FALSE,
                    << "info_recovery_completed" >>, "done", 0, "none")
       ELSE Outcome("none", Empty, Empty, TRUE, FALSE, << >>, FALSE, << >>,
                    "none", 0, "none")]
  /\ written = << >>
  /\ faults = 0
  /\ ThreadsIdle

\* A process starts: WriteAheadStore().
Open(p) ==
  /\ ~alive[p]
  /\ Construct(p)
  /\ UNCHANGED << disk, written, faults >>
  /\ UNCHANGED tvars

\* A process ends: its store and its handle are gone, the log stays.
Close(p) ==
  /\ alive[p]
  /\ alive' = [alive EXCEPT ![p] = FALSE]
  /\ ret' = [ret EXCEPT ![p] =
       Outcome("close", Empty, Empty, TRUE, FALSE, << >>, FALSE, << >>,
               "none", 0, "none")]
  /\ UNCHANGED << disk, store, path, pos, written, faults >>
  /\ UNCHANGED tvars

\* The entry of `written` for an append by p of `n` bytes of a record.
Appended(p, key, val, n, full, ok) ==
  [proc |-> p, off |-> Len(disk[path[p]]), key |-> key, val |-> val,
   len |-> n, full |-> full, ok |-> ok]

\* A faulty variant of DeleteFlag: delete marks the key present.
DeleteFlagSet == TRUE

\* The flag delete stores: self.__store[key] = (offset, False).
DeleteFlag == FALSE

\* The body of set (val # Empty, is_set = TRUE) and of delete (val = Empty,
\* is_set = FALSE), lines 180-197 and 269-285: under the mutex and the exclusive
\* file lock, offset = tell(), write, flush, update the index, return True; any
\* exception inside the try returns False; the unlock in the finally clause is
\* outside it.  The handle is in append mode: the bytes land at the end of the
\* file wherever the handle's position is, and the position follows them.
\* `cut` is the number of bytes of the record a failed flush leaves in the file.
AppendRecord(p, op, key, val, flag, ts, fault, cut) ==
  LET offset == pos[p]
      record == pack_record(ts, encode(key), encode(val))
      failed == IF op = "set" THEN "error_set" ELSE "error_delete"
      done   == IF op = "set" THEN "info_set" ELSE "info_delete"
      out(ok, raised, log) ==
        Outcome(op, key, val, ok, FALSE, << >>, raised, << log >>, "none", 0, fault)
  IN
  IF fault \in {"lock", "tell", "write"}
  THEN /\ ret' = [ret EXCEPT ![p] = out(FALSE, FALSE, failed)]
       /\ UNCHANGED << disk, store, pos, written >>
  ELSE IF fault = "flush"
  THEN /\ disk' = [disk EXCEPT ![path[p]] = @ \o SubSeq(record, 1, cut)]
       /\ pos' = [pos EXCEPT ![p] = Len(disk'[path[p]])]
       /\ written' = IF cut = 0 THEN written
                     ELSE Append(written, Appended(p, key, val, cut, FALSE, FALSE))
       /\ ret' = [ret EXCEPT ![p] = out(FALSE, FALSE, failed)]
       /\ UNCHANGED store
  ELSE /\ disk' = [disk EXCEPT ![path[p]] = @ \o record]
       /\ pos' = [pos EXCEPT ![p] = Len(disk'[path[p]])]
       /\ store' = [store EXCEPT ![p] = StoreSet(@, key, offset, flag)]
       /\ written' = Append(written,
            Appended(p, key, val, Len(record), TRUE, fault = "none"))
       /\ ret' = [ret EXCEPT ![p] =
            out(fault = "none", fault = "unlock", done)]

\* set(key, value), lines 156-197.  Empty arguments are rejected before any lock
\* is taken.
Set(p, key, val, ts, fault, cut) ==
  /\ alive[p]
  /\ IF invalid_set(key, val)
     THEN /\ fault = "none" /\ cut = 0
          /\ ret' = [ret EXCEPT ![p] =
               Outcome("set", key, val, FALSE, FALSE, << >>, TRUE,
                       << "error_validation" >>, "none", 0, "none")]
          /\ UNCHANGED << disk, store, pos, written >>
     ELSE /\ Len(written) < MaxRecords
          /\ fault # "none" => faults < MaxFaults
          /\ IF fault = "flush" THEN cut < HeaderSize + Len(encode(key)) + Len(encode(val))
             ELSE cut = 0
          /\ AppendRecord(p, "set", key, val, TRUE, ts, fault, cut)
  /\ faults' = IF fault = "none" THEN faults ELSE faults + 1
  /\ UNCHANGED << alive, path >>
  /\ UNCHANGED tvars

\* delete(key), lines 246-285: a record with value_length 0.
Delete(p, key, ts, fault, cut) ==
  /\ alive[p]
  /\ IF invalid_key(key)
     THEN /\ fault = "none" /\ cut = 0
          /\ ret' = [ret EXCEPT ![p] =
               Outcome("delete", key, Empty, FALSE, FALSE, << >>, TRUE,
                       << "error_validation" >>, "none", 0, "none")]
          /\ UNCHANGED << disk, store, pos, written >>
     ELSE /\ Len(written) < MaxRecords
          /\ fault # "none" => faults < MaxFaults
          /\ IF fault = "flush" THEN cut < HeaderSize + Len(encode(key)) ELSE cut = 0
          /\ AppendRecord(p, "delete", key, Empty, DeleteFlag, ts, fault, cut)
  /\ faults' = IF fault = "none" THEN faults ELSE faults + 1
  /\ UNCHANGED << alive, path >>
  /\ UNCHANGED tvars

\* get(key), lines 199-244.  A fault needs a step to fail in: the I/O of get is
\* reached only for a key the index reports as present.
Get(p, key, fault) ==
  /\ alive[p]
  /\ fault # "none" =>
       /\ faults < MaxFaults
       /\ key # Empty /\ HasKey(store[p], key) /\ Entry(store[p], key).is_set
  /\ LET g == get_call(store[p], disk[path[p]], key, fault)
     IN ret' = [ret EXCEPT ![p] =
          Outcome("get", key, Empty, FALSE, g.found, g.out, g.raised, g.logs,
                  "none", 0, fault)]
  /\ faults' = IF fault = "none" THEN faults ELSE faults + 1
  /\ UNCHANGED << disk, alive, store, path, pos, written >>
  /\ UNCHANGED tvars

\* A faulty variant of Recovery: a pass that follows another pass with no call in
\* between is skipped, after the index was emptied.
RecoverySkipsRepeat(p, fault) ==
  /\ alive[p]
  /\ fault # "none" => faults < MaxFaults
  /\ LET r == recovery_call(disk[path[p]], fault)
     IN /\ store' = [store EXCEPT ![p] =
             IF ret[p].op \in {"init", "recovery"} THEN {} ELSE r.store]
        /\ ret' = [ret EXCEPT ![p] =
             Outcome("recovery", Empty, Empty, TRUE, FALSE, << >>, r.raised, r.logs,
                     r.state, r.got, fault)]
  /\ faults' = IF fault = "none" THEN faults ELSE faults + 1
  /\ UNCHANGED << disk, alive, path, pos, written >>
  /\ UNCHANGED tvars

\* recovery(), lines 104-154.
Recovery(p, fault) ==
  /\ alive[p]
  /\ fault # "none" => faults < MaxFaults
  /\ LET r == recovery_call(disk[path[p]], fault)
     IN /\ store' = [store EXCEPT ![p] = r.store]
        /\ ret' = [ret EXCEPT ![p] =
             Outcome("recovery", Empty, Empty, TRUE, FALSE, << >>, r.raised, r.logs,
                     r.state, r.got, fault)]
  /\ faults' = IF fault = "none" THEN faults ELSE faults + 1
  /\ UNCHANGED << disk, alive, path, pos, written >>
  /\ UNCHANGED tvars

\* A faulty variant of SetRecoveryFilePath: the index is rebuilt from the new file.
SetRecoveryFilePathResyncs(p, file_path) ==
  /\ alive[p]
  /\ file_path # ""
  /\ path' = [path EXCEPT ![p] = file_path]
  /\ pos' = [pos EXCEPT ![p] = Len(disk[file_path])]
  /\ store' = [store EXCEPT ![p] = recovery_call(disk[file_path], "none").store]
  /\ ret' = [ret EXCEPT ![p] =
       Outcome("set_recovery_file_path", Empty, Empty, TRUE, FALSE, << >>, FALSE,
               << >>, "none", 0, "none")]
  /\ UNCHANGED << disk, alive, written, faults >>
  /\ UNCHANGED tvars

\* set_recovery_file_path(file_path), lines 87-101: an empty path raises
\* ValueError; otherwise the path is replaced and the append handle is closed and
\* opened again in "ab+" on the new path, at its end. The index is not touched.
SetRecoveryFilePath(p, file_path) ==
  /\ alive[p]
  /\ IF file_path = ""
     THEN /\ ret' = [ret EXCEPT ![p] =
               Outcome("set_recovery_file_path", Empty, Empty, FALSE, FALSE, << >>,
                       TRUE, << >>, "none", 0, "none")]
          /\ UNCHANGED << path, pos >>
     ELSE /\ path' = [path EXCEPT ![p] = file_path]
          /\ pos' = [pos EXCEPT ![p] = Len(disk[file_path])]
          /\ ret' = [ret EXCEPT ![p] =
               Outcome("set_recovery_file_path", Empty, Empty, TRUE, FALSE, << >>,
                       FALSE, << >>, "none", 0, "none")]
  /\ UNCHANGED << disk, alive, store, written, faults >>
  /\ UNCHANGED tvars

\* Another program cuts the last n bytes off a log file while stores are open on
\* it: nothing in the class prevents it, and no handle or index learns of it.
ExternalTruncate(f, n) ==
  /\ faults < MaxFaults
  /\ n >= 1 /\ n <= Len(disk[f])
  /\ disk' = [disk EXCEPT ![f] = SubSeq(@, 1, Len(@) - n)]
  /\ faults' = faults + 1
  /\ UNCHANGED << alive, store, path, pos, ret, written >>
  /\ UNCHANGED tvars

\* ------------------------------------------------ calls, line by line
\* One iteration of the while loop of __recovery (lines 136-151) at `offset` with
\* the index `st`: "more" when a record was applied, "done" when the loop breaks,
\* "corrupted" when it raises.
scan_one(bytes, offset, st) ==
  LET header == ReadAt(bytes, offset, HeaderSize)
  IN
  IF header = << >> \/ Len(header) < HeaderSize
  THEN [store |-> st, state |-> "done", offset |-> offset]
  ELSE
    LET key_length   == Unpack32(SubSeq(header, FieldSize + 1, 2 * FieldSize))
        value_length == Unpack32(SubSeq(header, 2 * FieldSize + 1, 3 * FieldSize))
        key_bytes    == ReadAt(bytes, offset + HeaderSize, key_length)
        key          == decode(key_bytes)
        value_bytes  == ReadAt(bytes, offset + HeaderSize + key_length, value_length)
    IN
    IF Len(key_bytes) < key_length \/ ~key.ok
       \/ (value_length > 0 /\ Len(value_bytes) < value_length)
    THEN [store |-> st, state |-> "corrupted", offset |-> offset]
    ELSE [store  |-> IF value_length > 0 THEN StoreSet(st, key.text, offset, TRUE)
                     ELSE ScanTombstone(st, key.text),
          state  |-> "more",
          offset |-> NextOffset(offset, key_length, value_length)]

\* The lines of set and delete, of get and of __recovery a thread can stand at.
WritePcs == {"w_mutex", "w_lock", "w_tell", "w_flush", "w_flush2", "w_store",
             "w_unlock", "w_release"}
\* From the exclusive file lock taken to the index update made (lines 183-190).
AppendPcs == {"w_tell", "w_flush", "w_flush2", "w_store"}
\* The reads of get (lines 230-235) and of the scan (lines 135-151).
ReadPcs == {"g_read", "r_scan"}

\* A faulty variant of MutexFree: set and delete do not wait for the mutex.
MutexIgnored(p) == TRUE

\* Line 180, `with self.__thread_lock:` is entered when no thread holds it.
MutexFree(p) == mutex[p] = 0

\* A faulty variant of ReadLockMode: a mode __lock_file does not know.
ReadLockModeUnknown == "none"

\* Lines 134 and 229: the mode get and __recovery pass to __lock_file.
ReadLockMode == "shared"

\* A faulty variant of AfterFailure: set and delete do not unlock in a finally.
AfterFailureSkipsUnlock(line) ==
  IF line \in AppendPcs THEN "w_release"
  ELSE IF line = "g_read" THEN "g_unlock" ELSE "r_unlock"

\* Where a call goes on when a line under the file lock raises: the except
\* clause, then the finally that unlocks (lines 193-197, 240-244, 153-154).
AfterFailure(line) ==
  IF line \in AppendPcs THEN "w_unlock"
  ELSE IF line = "g_read" THEN "g_unlock" ELSE "r_unlock"

\* The record a set or delete call of thread t appends.
RecordOf(t) ==
  pack_record(CHOOSE ts \in Timestamps : TRUE, encode(loc[t].key), encode(loc[t].val))

\* The appends that have been called and have not reached the log yet.
Pending == Cardinality({u \in Threads : pc[u] \in {"w_mutex", "w_lock", "w_tell", "w_flush"}})

\* A thread calls set(key, value) or delete(key) with valid arguments.
BeginAppend(t, op, key, val) ==
  /\ alive[ProcOf(t)] /\ pc[t] = "idle"
  /\ Len(written) + Pending < MaxRecords
  /\ pc' = [pc EXCEPT ![t] = "w_mutex"]
  /\ loc' = [loc EXCEPT ![t] = [NoCall EXCEPT !.op = op, !.key = key, !.val = val]]
  /\ UNCHANGED << vars, mutex, exlock, shlock, updates >>

\* Line 180 (269 in delete): the thread takes the mutex of its store.
AcquireMutex(t) ==
  /\ pc[t] = "w_mutex"
  /\ MutexFree(ProcOf(t))
  /\ mutex' = [mutex EXCEPT ![ProcOf(t)] = t]
  /\ pc' = [pc EXCEPT ![t] = "w_lock"]
  /\ UNCHANGED << vars, loc, exlock, shlock, updates >>

\* Line 182: the exclusive lock on self.__file.  The lock belongs to the handle:
\* it waits for the locks of every other handle, not for its own.
LockExclusive(t) ==
  /\ pc[t] = "w_lock"
  /\ \A q \in Procs \ {ProcOf(t)} : ~exlock[q]
  /\ \A u \in Threads : ~shlock[u]
  /\ exlock' = [exlock EXCEPT ![ProcOf(t)] = TRUE]
  /\ pc' = [pc EXCEPT ![t] = "w_tell"]
  /\ UNCHANGED << vars, loc, mutex, shlock, updates >>

\* Line 183: offset = self.__file.tell().
Tell(t) ==
  /\ pc[t] = "w_tell"
  /\ loc' = [loc EXCEPT ![t].offset = pos[ProcOf(t)]]
  /\ pc' = [pc EXCEPT ![t] = "w_flush"]
  /\ UNCHANGED << vars, mutex, exlock, shlock, updates >>

\* Lines 184-189: the record is packed and flushed; the header reaches the file
\* first.
FlushHead(t) ==
  /\ pc[t] = "w_flush"
  /\ disk' = [disk EXCEPT ![path[ProcOf(t)]] = @ \o SubSeq(RecordOf(t), 1, HeaderSize)]
  /\ pos' = [pos EXCEPT ![ProcOf(t)] = Len(disk'[path[ProcOf(t)]])]
  /\ written' = Append(written,
       Appended(ProcOf(t), loc[t].key, loc[t].val, HeaderSize, FALSE, FALSE))
  /\ loc' = [loc EXCEPT ![t].idx = Len(written) + 1]
  /\ pc' = [pc EXCEPT ![t] = "w_flush2"]
  /\ UNCHANGED << alive, store, path, ret, faults, mutex, exlock, shlock, updates >>

\* Line 189, the rest of the flush: the key and the value reach the file.
FlushRest(t) ==
  /\ pc[t] = "w_flush2"
  /\ disk' = [disk EXCEPT ![path[ProcOf(t)]] =
       @ \o SubSeq(RecordOf(t), HeaderSize + 1, Len(RecordOf(t)))]
  /\ pos' = [pos EXCEPT ![ProcOf(t)] = Len(disk'[path[ProcOf(t)]])]
  /\ written' = [written EXCEPT ![loc[t].idx] =
       [@ EXCEPT !.len = Len(RecordOf(t)), !.full = TRUE, !.ok = TRUE]]
  /\ pc' = [pc EXCEPT ![t] = "w_store"]
  /\ UNCHANGED << alive, store, path, ret, faults, loc, mutex, exlock, shlock, updates >>

\* Line 190 (278 in delete): the index entry of the key, then return True.
StoreUpdate(t) ==
  /\ pc[t] = "w_store"
  /\ store' = [store EXCEPT ![ProcOf(t)] =
       StoreSet(@, loc[t].key, loc[t].offset,
                IF loc[t].op = "set" THEN TRUE ELSE DeleteFlag)]
  /\ updates' = Append(updates,
       [proc |-> ProcOf(t), key |-> loc[t].key, val |-> loc[t].val])
  /\ loc' = [loc EXCEPT ![t].ok = TRUE]
  /\ pc' = [pc EXCEPT ![t] = "w_unlock"]
  /\ UNCHANGED << disk, alive, path, pos, ret, written, faults, mutex, exlock, shlock >>

\* Line 197, the finally of set and delete: self.__file is unlocked.
UnlockAppend(t) ==
  /\ pc[t] = "w_unlock"
  /\ exlock' = [exlock EXCEPT ![ProcOf(t)] = FALSE]
  /\ pc' = [pc EXCEPT ![t] = "w_release"]
  /\ UNCHANGED << vars, loc, mutex, shlock, updates >>

\* The end of `with self.__thread_lock`: the mutex is released and the call
\* returns.
ReleaseMutex(t) ==
  /\ pc[t] = "w_release"
  /\ mutex' = [mutex EXCEPT ![ProcOf(t)] = 0]
  /\ pc' = [pc EXCEPT ![t] = "done"]
  /\ UNCHANGED << vars, loc, exlock, shlock, updates >>

\* A thread calls get(key) with a valid key.
BeginGet(t, key) ==
  /\ alive[ProcOf(t)] /\ pc[t] = "idle"
  /\ pc' = [pc EXCEPT ![t] = "g_check"]
  /\ loc' = [loc EXCEPT ![t] = [NoCall EXCEPT !.op = "get", !.key = key]]
  /\ UNCHANGED << vars, mutex, exlock, shlock, updates >>

\* Lines 220-222: `if key not in self.__store` returns None.
GetCheck(t) ==
  /\ pc[t] = "g_check"
  /\ pc' = [pc EXCEPT ![t] =
       IF HasKey(store[ProcOf(t)], loc[t].key) THEN "g_entry" ELSE "done"]
  /\ UNCHANGED << vars, loc, mutex, exlock, shlock, updates >>

\* Lines 223-227: `offset, is_set = self.__store[key]` raises KeyError when the
\* key has left the index since line 220; a key that is not set returns None;
\* otherwise the read handle is opened.
GetEntry(t) ==
  /\ pc[t] = "g_entry"
  /\ IF ~HasKey(store[ProcOf(t)], loc[t].key)
     THEN /\ loc' = [loc EXCEPT ![t].raised = TRUE]
          /\ pc' = [pc EXCEPT ![t] = "done"]
     ELSE /\ loc' = [loc EXCEPT ![t].offset = Entry(store[ProcOf(t)], loc[t].key).offset]
          /\ pc' = [pc EXCEPT ![t] =
               IF Entry(store[ProcOf(t)], loc[t].key).is_set THEN "g_lock" ELSE "done"]
  /\ UNCHANGED << vars, mutex, exlock, shlock, updates >>

\* Lines 134 and 229: __lock_file(handle, mode) on the read handle the thread has
\* opened.  A shared lock waits for every exclusive lock; a mode that is neither
\* exclusive nor shared locks nothing (lines 57-60).
LockShared(t) ==
  /\ pc[t] \in {"g_lock", "r_lock"}
  /\ IF ReadLockMode = "shared"
     THEN /\ \A q \in Procs : ~exlock[q]
          /\ shlock' = [shlock EXCEPT ![t] = TRUE]
     ELSE UNCHANGED shlock
  /\ pc' = [pc EXCEPT ![t] = IF pc[t] = "g_lock" THEN "g_read" ELSE "r_scan"]
  /\ UNCHANGED << vars, loc, mutex, exlock, updates >>

\* Lines 230-239: seek, the reads, the comparison of the key.
GetRead(t) ==
  /\ pc[t] = "g_read"
  /\ LET g == get_call({[key |-> loc[t].key, offset |-> loc[t].offset, is_set |-> TRUE]},
                       disk[path[ProcOf(t)]], loc[t].key, "none")
     IN loc' = [loc EXCEPT ![t].found = g.found, ![t].out = g.out]
  /\ pc' = [pc EXCEPT ![t] = "g_unlock"]
  /\ UNCHANGED << vars, mutex, exlock, shlock, updates >>

\* Lines 154 and 244: the finally unlocks the read handle, the `with` closes it
\* and the call returns.
UnlockRead(t) ==
  /\ pc[t] \in {"g_unlock", "r_unlock"}
  /\ shlock' = [shlock EXCEPT ![t] = FALSE]
  /\ pc' = [pc EXCEPT ![t] = "done"]
  /\ UNCHANGED << vars, loc, mutex, exlock, updates >>

\* A thread calls recovery().
BeginRecovery(t) ==
  /\ alive[ProcOf(t)] /\ pc[t] = "idle"
  /\ pc' = [pc EXCEPT ![t] = "r_reset"]
  /\ loc' = [loc EXCEPT ![t] = [NoCall EXCEPT !.op = "recovery"]]
  /\ UNCHANGED << vars, mutex, exlock, shlock, updates >>

\* Lines 130-132: offset = 0, the index is emptied, the read handle is opened.
RecoveryReset(t) ==
  /\ pc[t] = "r_reset"
  /\ store' = [store EXCEPT ![ProcOf(t)] = {}]
  /\ pc' = [pc EXCEPT ![t] = "r_lock"]
  /\ UNCHANGED << disk, alive, path, pos, ret, written, faults, loc, mutex, exlock,
                  shlock, updates >>

\* Lines 136-151: one iteration of the scan.
ScanStep(t) ==
  /\ pc[t] = "r_scan"
  /\ LET r == scan_one(disk[path[ProcOf(t)]], loc[t].offset, store[ProcOf(t)])
     IN /\ store' = [store EXCEPT ![ProcOf(t)] = r.store]
        /\ loc' = [loc EXCEPT ![t].offset = r.offset,
                              ![t].state = IF r.state = "more" THEN "none" ELSE r.state]
        /\ pc' = [pc EXCEPT ![t] = IF r.state = "more" THEN "r_scan" ELSE "r_unlock"]
  /\ UNCHANGED << disk, alive, path, pos, ret, written, faults, mutex, exlock, shlock,
                  updates >>

\* A line under the file lock raises (an I/O error): the call goes to its except
\* and finally clauses with a failed result.
Fail(t) ==
  /\ pc[t] \in AppendPcs \cup ReadPcs
  /\ pc[t] # "w_store"
  /\ faults < MaxFaults
  /\ faults' = faults + 1
  /\ loc' = [loc EXCEPT ![t].state = "failed"]
  /\ pc' = [pc EXCEPT ![t] = AfterFailure(pc[t])]
  /\ UNCHANGED << disk, alive, store, path, pos, ret, written, mutex, exlock, shlock,
                  updates >>

\* ---------------------------------------------------- specifications
\* One process, no storage fault: every call of the API, and restarts.
Next ==
  \E p \in Single :
    \/ \E k \in KeyArgs, v \in ValueArgs, ts \in Timestamps : Set(p, k, v, ts, "none", 0)
    \/ \E k \in KeyArgs, ts \in Timestamps : Delete(p, k, ts, "none", 0)
    \/ \E k \in KeyArgs : Get(p, k, "none")
    \/ Recovery(p, "none")
    \/ Close(p)
    \/ Open(p)

Spec == Init /\ [][Next]_vars

\* Two processes, each with its own store, on the same log file.
NextMP ==
  \E p \in Procs :
    \/ \E k \in Keys, v \in Values, ts \in Timestamps : Set(p, k, v, ts, "none", 0)
    \/ \E k \in Keys, ts \in Timestamps : Delete(p, k, ts, "none", 0)
    \/ \E k \in Keys : Get(p, k, "none")
    \/ Open(p)

SpecMP == Init /\ [][NextMP]_vars

\* The steps of set and delete, of get and of recovery that a fault can hit.
AppendFaults == {"none", "lock", "tell", "write", "flush", "unlock"}
GetFaults == {"none", "open", "lock", "seek", "read", "unlock"}
RecoveryFaults == {"none", "open", "lock", "unlock"}

\* One process whose I/O and locking steps can fail.
NextFault ==
  \E p \in Single :
    \/ \E k \in Keys, v \in Values, ts \in Timestamps, f \in AppendFaults, c \in Cuts :
         Set(p, k, v, ts, f, c)
    \/ \E k \in Keys, ts \in Timestamps, f \in AppendFaults, c \in Cuts :
         Delete(p, k, ts, f, c)
    \/ \E k \in Keys, f \in GetFaults : Get(p, k, f)
    \/ \E f \in RecoveryFaults : Recovery(p, f)

SpecFault == Init /\ [][NextFault]_vars

\* The machine stops in the middle of an append: with no store open, the last
\* `n` bytes of the final record are cut off a log of complete records.
TruncateTail(n) ==
  /\ \A p \in Procs : ~alive[p]
  /\ written # << >>
  /\ \A i \in 1..Len(written) : written[i].full
  /\ n >= 1 /\ n < written[Len(written)].len
  /\ disk' = [disk EXCEPT ![DefaultPath] = SubSeq(@, 1, Len(@) - n)]
  /\ written' = [written EXCEPT ![Len(written)] =
       [@ EXCEPT !.len = @ - n, !.full = FALSE]]
  /\ UNCHANGED << alive, store, path, pos, ret, faults >>
  /\ UNCHANGED tvars

\* One process, restarts, and a log whose final record a crash has cut.
NextCrash ==
  \/ \E p \in Single :
       \/ \E k \in Keys, v \in Values, ts \in Timestamps : Set(p, k, v, ts, "none", 0)
       \/ \E k \in Keys, ts \in Timestamps : Delete(p, k, ts, "none", 0)
       \/ \E k \in Keys : Get(p, k, "none")
       \/ Recovery(p, "none")
       \/ Close(p)
       \/ Open(p)
  \/ \E n \in 1..MaxRecordLen : TruncateTail(n)

SpecCrash == Init /\ [][NextCrash]_vars

\* One process that writes, re-synchronises and restarts on a log whose final
\* record a crash may have cut; no read.
NextRecover ==
  \/ \E p \in Single :
       \/ \E k \in Keys, v \in Values, ts \in Timestamps : Set(p, k, v, ts, "none", 0)
       \/ \E k \in Keys, ts \in Timestamps : Delete(p, k, ts, "none", 0)
       \/ Recovery(p, "none")
       \/ Close(p)
       \/ Open(p)
  \/ \E n \in 1..MaxRecordLen : TruncateTail(n)

SpecRecover == Init /\ [][NextRecover]_vars

\* One process whose log path is reconfigured between two files.
NextPath ==
  \E p \in Single :
    \/ \E k \in Keys, v \in OneValue, ts \in Timestamps : Set(p, k, v, ts, "none", 0)
    \/ \E k \in Keys, ts \in Timestamps : Delete(p, k, ts, "none", 0)
    \/ \E k \in Keys : Get(p, k, "none")
    \/ Recovery(p, "none")
    \/ \E f \in PathArgs : SetRecoveryFilePath(p, f)

SpecPath == Init /\ [][NextPath]_vars

\* One process whose log file another program may cut while the store is open.
NextExternal ==
  \/ \E p \in Single :
       \/ \E k \in Keys, v \in Values, ts \in Timestamps : Set(p, k, v, ts, "none", 0)
       \/ \E k \in Keys, ts \in Timestamps : Delete(p, k, ts, "none", 0)
       \/ \E k \in Keys : Get(p, k, "none")
       \/ Recovery(p, "none")
  \/ \E n \in 1..MaxRecordLen : ExternalTruncate(DefaultPath, n)

SpecExternal == Init /\ [][NextExternal]_vars

\* Two processes with their stores constructed on the same log, which is empty
\* or holds the record of set("a", "x") of an earlier session.
InitialLogs ==
  {<< >>} \cup {pack_record(ts, encode(<< 97 >>), encode(<< 120 >>)) : ts \in Timestamps}

InitThreads ==
  \E log \in InitialLogs :
    /\ disk = [f \in Paths |-> IF f = DefaultPath THEN log ELSE << >>]
    /\ alive = [p \in Procs |-> TRUE]
    /\ store = [p \in Procs |-> recovery_call(log, "none").store]
    /\ path = [p \in Procs |-> DefaultPath]
    /\ pos = [p \in Procs |-> Len(log)]
    /\ ret = [p \in Procs |->
         Outcome("init", Empty, Empty, TRUE, FALSE, << >>, FALSE,
                 << "info_recovery_completed" >>, "done", 0, "none")]
    /\ written = IF log = << >> THEN << >>
                 ELSE << [proc |-> 0, off |-> 0, key |-> << 97 >>, val |-> << 120 >>,
                          len |-> Len(log), full |-> TRUE, ok |-> TRUE] >>
    /\ faults = 0
    /\ ThreadsIdle

\* The lines of the calls of the threads; each thread makes one call.
ThreadStep(t) ==
  \/ \E k \in Keys, v \in OneValue : BeginAppend(t, "set", k, v)
  \/ \E k \in Keys : BeginAppend(t, "delete", k, Empty)
  \/ \E k \in Keys : BeginGet(t, k)
  \/ BeginRecovery(t)
  \/ AcquireMutex(t)
  \/ LockExclusive(t)
  \/ Tell(t)
  \/ FlushHead(t)
  \/ FlushRest(t)
  \/ StoreUpdate(t)
  \/ UnlockAppend(t)
  \/ ReleaseMutex(t)
  \/ GetCheck(t)
  \/ GetEntry(t)
  \/ LockShared(t)
  \/ GetRead(t)
  \/ RecoveryReset(t)
  \/ ScanStep(t)
  \/ UnlockRead(t)

\* Threads of two processes, no storage fault.
NextThreads == \E t \in Threads : ThreadStep(t)

SpecThreads == InitThreads /\ [][NextThreads]_allvars

\* The same threads, where a line under the file lock may raise.
NextThreadsFault ==
  \E t \in Threads :
    \/ ThreadStep(t)
    \/ Fail(t)

SpecThreadsFault == InitThreads /\ [][NextThreadsFault]_allvars

\* ------------------------------------------------------------ history
\* The appends of process p for key k, by their place in `written`.
WritesOf(p, k) == {i \in 1..Len(written) : written[i].proc = p /\ written[i].key = k}
HasWrite(p, k) == WritesOf(p, k) # {}
LastWrite(p, k) ==
  written[CHOOSE i \in WritesOf(p, k) : \A j \in WritesOf(p, k) : j <= i]

\* What a read of k must give when the log holds exactly the records `recs`: the
\* value of the last record for k, not found when that is a tombstone or none is.
ExpectedRead(recs, k) ==
  LET hits == {i \in 1..Len(recs) : recs[i].key = k}
      last == CHOOSE i \in hits : \A j \in hits : j <= i
  IN IF hits = {} \/ recs[last].val = Empty
     THEN [found |-> FALSE, out |-> << >>]
     ELSE [found |-> TRUE, out |-> encode(recs[last].val)]

\* ------------------------------------------------------------- claims
\* C1: in one store instance, once set(k, v) has returned true and no later
\* set(k, ..) or delete(k) has happened, every get(k) returns exactly the bytes
\* of v, whatever was done to other keys before or in between.
C1_RoundTrip ==
  \A p \in Single : \A k \in Keys :
    ( /\ ret[p].op = "get" /\ ret[p].key = k
      /\ HasWrite(p, k) /\ LastWrite(p, k).ok /\ LastWrite(p, k).val # Empty )
    => ( /\ ~ret[p].raised
         /\ ret[p].found
         /\ ret[p].out = encode(LastWrite(p, k).val) )

\* A get of a key whose last set is followed in the log by a write to another key.
C1_Witness ==
  \E k \in Keys :
    /\ ret[1].op = "get" /\ ret[1].key = k /\ ret[1].found
    /\ HasWrite(1, k) /\ LastWrite(1, k).val = << 121, 122 >>
    /\ written[Len(written)].key # k

\* C2: closing the store and reopening it (which runs recovery) gives, for every
\* key, the get result the in-memory state gave just before closing.
C2_ReplayEquivalentReads ==
  [][ \A p \in Single :
        (~alive[p] /\ alive'[p])
        => Reads(store'[p], disk'[path'[p]]) = Reads(store[p], disk[path[p]]) ]_vars

\* A store reopened on a log that holds a value record for one key and, for the
\* other key, a value record followed by a tombstone.
C2_Witness ==
  /\ alive[1] /\ ret[1].op = "init" /\ Len(written) = 3
  /\ \E k \in Keys : HasWrite(1, k) /\ LastWrite(1, k).val = Empty
                     /\ Cardinality(WritesOf(1, k)) = 2
  /\ \E k \in Keys : Reads(store[1], disk[path[1]])[k].found

\* C3: the in-memory index (key set, offsets, flags) is identical to the index
\* a replay of the log from offset 0 produces, deleted keys included.
C3_IndexEqualsReplay ==
  \A p \in Single :
    alive[p] => store[p] = scan(disk[path[p]], 0, {}).store

\* C4: after delete(k) has returned true and until a later set(k, ..) succeeds,
\* get(k) returns None, whether or not k was ever set; and delete of a valid key,
\* set before or not, returns true.
C4_DeletedReadsNotFound ==
  \A p \in Single :
    /\ \A k \in Keys :
         ( /\ ret[p].op = "get" /\ ret[p].key = k
           /\ HasWrite(p, k) /\ LastWrite(p, k).ok /\ LastWrite(p, k).val = Empty )
         => (~ret[p].found /\ ~ret[p].raised)
    /\ (ret[p].op = "delete" /\ ret[p].key # Empty) => (ret[p].ok /\ ~ret[p].raised)

\* A get of a key that was deleted and never set.
C4_Witness ==
  \E k \in Keys :
    /\ ret[1].op = "get" /\ ret[1].key = k /\ ~ret[1].found
    /\ HasWrite(1, k)
    /\ \A i \in WritesOf(1, k) : written[i].val = Empty

\* C5: after sets of the same key the index holds exactly one entry for it, the
\* entry's offset is where the header of the last record appended for the key
\* begins, and get returns the value of the last set.
C5_LastWriteWins ==
  \A p \in Single : \A k \in Keys :
    (alive[p] /\ HasWrite(p, k) /\ LastWrite(p, k).val # Empty)
    => ( /\ Cardinality({e \in store[p] : e.key = k}) = 1
         /\ Entry(store[p], k).offset = LastWrite(p, k).off
         /\ Entry(store[p], k).is_set
         /\ Reads(store[p], disk[path[p]])[k] =
              [found |-> TRUE, out |-> encode(LastWrite(p, k).val)] )

\* The same key set three times, the last value differing from the one before.
C5_Witness ==
  \E k \in Keys :
    /\ alive[1] /\ Cardinality(WritesOf(1, k)) = 3
    /\ \A i \in WritesOf(1, k) : written[i].val # Empty
    /\ written[2].val # written[3].val

\* C6: reopening on a log whose final record has lost its last N bytes does not
\* raise, logs a corruption error, and every key reads as the complete records
\* before the cut determine.
C6_CorruptionResilience ==
  \A p \in Single :
    ( /\ alive[p] /\ ret[p].op = "init"
      /\ written # << >> /\ ~written[Len(written)].full )
    => ( /\ ~ret[p].raised
         /\ ret[p].logs = << "error_recovery" >>
         /\ \A k \in Keys :
              Reads(store[p], disk[path[p]])[k] =
                ExpectedRead(SubSeq(written, 1, Len(written) - 1), k) )

\* C7: a header read of 1 to 11 bytes ends the pass "corrupted" with an error
\* logged; only a read of zero bytes ends it "done".
C7_ShortHeaderIsCorruption ==
  \A p \in Single :
    ret[p].op \in {"init", "recovery"}
    => ( /\ (ret[p].got >= 1 /\ ret[p].got < HeaderSize)
            => (ret[p].state = "corrupted" /\ ret[p].logs = << "error_recovery" >>)
         /\ ret[p].state = "done" => ret[p].got = 0 )

\* C8: with several processes appending to the same log, after a process's
\* set(k, v) has returned true the offset its index holds for k is where the
\* header of the record it appended begins, and its next get(k) returns v.
C8_OffsetIsRecordStart ==
  \A p \in Procs : \A k \in Keys :
    /\ (ret[p].op = "set" /\ ret[p].key = k /\ ret[p].ok)
       => Entry(store[p], k).offset = LastWrite(p, k).off
    /\ ( /\ ret[p].op = "get" /\ ret[p].key = k
         /\ HasWrite(p, k) /\ LastWrite(p, k).ok /\ LastWrite(p, k).val # Empty )
       => (ret[p].found /\ ret[p].out = encode(LastWrite(p, k).val))

\* C9: once validation has passed, a failure of any I/O or locking step of set
\* or delete makes the call return false, and no exception reaches the caller.
C9_AppendFaultReturnsFalse ==
  \A p \in Single :
    (ret[p].op \in {"set", "delete"} /\ ret[p].key # Empty /\ ret[p].fault # "none")
    => (~ret[p].raised /\ ~ret[p].ok)

\* C10: for a valid key the index reports present, a failure of any I/O or
\* locking step of get makes it return None, and no exception reaches the caller.
C10_GetFaultReturnsNone ==
  \A p \in Single :
    (ret[p].op = "get" /\ ret[p].fault # "none")
    => (~ret[p].raised /\ ~ret[p].found)

\* C11: set with an empty key or an empty value, and get or delete with an empty
\* key, raise a validation error to the caller, append nothing to the log and
\* leave the index as it was.
C11_ValidationRejectsWithoutWriting ==
  [][ \A p \in Single :
        ( \/ (ret'[p].op = "set" /\ (ret'[p].key = Empty \/ ret'[p].val = Empty))
          \/ (ret'[p].op \in {"get", "delete"} /\ ret'[p].key = Empty) )
        => ( /\ ret'[p].raised
             /\ ret'[p].logs = << "error_validation" >>
             /\ disk' = disk /\ store' = store /\ pos' = pos /\ written' = written )
    ]_vars

\* set("a", "") has just been rejected by a store whose log and index hold a key.
C11_Witness ==
  /\ ret[1].op = "set" /\ ret[1].key = << 97 >> /\ ret[1].val = Empty /\ ret[1].raised
  /\ written # << >> /\ store[1] # {}

RecordAt(bytes, off) ==
  LET header       == ReadAt(bytes, off, HeaderSize)
      whole        == Len(header) = HeaderSize
      key_length   ==
        IF whole THEN Unpack32(SubSeq(header, FieldSize + 1, 2 * FieldSize)) ELSE 0
      value_length ==
        IF whole THEN Unpack32(SubSeq(header, 2 * FieldSize + 1, 3 * FieldSize)) ELSE 0
      key_field    == ReadAt(bytes, off + HeaderSize, key_length)
  IN [has_header   |-> Len(header) = HeaderSize,
      value_length |-> value_length,
      key_field    |-> key_field,
      value_field  |-> ReadAt(bytes, off + HeaderSize + Len(key_field), value_length)]

\* The index entry of key k points at a record that carries another key.
PointsAtOtherKey(p, k) ==
  /\ HasKey(store[p], k) /\ Entry(store[p], k).is_set
  /\ LET r == RecordAt(disk[path[p]], Entry(store[p], k).offset)
     IN r.has_header /\ r.key_field # encode(k)

\* C13: in every state, what get(k) returns when it returns a value is the value
\* field of the record at the indexed offset, and the key field of that record
\* is k; when the record there carries another key, get(k) returns not-found.
C13_GetNeverReturnsOtherKeysValue ==
  \A p \in Single : \A k \in Keys :
    LET g == get_call(store[p], disk[path[p]], k, "none")
    IN /\ g.found =>
            LET r == RecordAt(disk[path[p]], Entry(store[p], k).offset)
            IN r.has_header /\ r.key_field = encode(k) /\ g.out = r.value_field
       /\ PointsAtOtherKey(p, k) => ~g.found

\* get("a") has just returned not-found with a key-mismatch error: after the path
\* was reconfigured, the entry of "a" points at a record of another key.
C13_Witness ==
  /\ ret[1].op = "get" /\ ret[1].key = << 97 >> /\ ~ret[1].found
  /\ ret[1].logs = << "error_key_mismatch" >>
  /\ PointsAtOtherKey(1, << 97 >>)

\* C14: a set_recovery_file_path call leaves the index as it was; with a
\* non-empty path the append handle stands at the end of the file at the new
\* path, with an empty path the call raises and path and handle stay. The index
\* changes only in a construction, a recovery(), a set or a delete.
C14_PathChangeKeepsIndex ==
  [][ \A p \in Single :
        /\ (ret'[p].op = "set_recovery_file_path" /\ UNCHANGED << disk, alive, written, faults >>)
           => /\ store'[p] = store[p]
              /\ ~ret'[p].raised => pos'[p] = Len(disk[path'[p]])
              /\ ret'[p].raised => (path'[p] = path[p] /\ pos'[p] = pos[p])
        /\ store'[p] # store[p] => ret'[p].op \in {"init", "recovery", "set", "delete"}
    ]_vars

\* set_recovery_file_path("other.log") has returned in a store whose index holds
\* a key of the first log, while the file at the new path is empty.
C14_Witness ==
  /\ ret[1].op = "set_recovery_file_path" /\ ~ret[1].raised
  /\ path[1] = AltPath /\ disk[AltPath] = << >>
  /\ store[1] # {} /\ disk[DefaultPath] # << >>

\* C18: whenever get(k) returns a value, the value has exactly the number of
\* bytes the header of the record declares.
C18_GetNeverReturnsShortValue ==
  \A p \in Single : \A k \in Keys :
    LET g == get_call(store[p], disk[path[p]], k, "none")
    IN g.found =>
         Len(g.out) = RecordAt(disk[path[p]], Entry(store[p], k).offset).value_length

\* C20: when the log holds a cut record and a set(k, v) appended behind it has
\* returned true, with no later write to k, get(k) returns v in that session and
\* in every session that opens the store afterwards.
C20_WritesAfterCrashSurvive ==
  \A p \in Single : \A k \in Keys :
    ( /\ alive[p] /\ HasWrite(p, k)
      /\ LastWrite(p, k).ok /\ LastWrite(p, k).full /\ LastWrite(p, k).val # Empty
      /\ \E i \in 1..Len(written) : ~written[i].full /\ written[i].off < LastWrite(p, k).off )
    => Reads(store[p], disk[path[p]])[k] =
         [found |-> TRUE, out |-> encode(LastWrite(p, k).val)]

\* C15: no read handle holds the shared lock while an append handle holds the
\* exclusive lock (nor two append handles the exclusive lock); a set or delete
\* holds the exclusive lock from the line that reads the append offset to its
\* index update; a get or a scan reads only under its shared lock, and never
\* while a record is partly in the file.
C15_ReadersAndAppendersExclude ==
  /\ \A p \in Procs :
       exlock[p] => /\ \A t \in Threads : ~shlock[t]
                    /\ \A q \in Procs \ {p} : ~exlock[q]
  /\ \A t \in Threads : pc[t] \in AppendPcs => exlock[ProcOf(t)]
  /\ \A t \in Threads :
       pc[t] \in ReadPcs
       => /\ shlock[t]
          /\ \A u \in Threads : pc[u] # "w_flush2"
          /\ \A i \in 1..Len(written) : written[i].full

\* A thread of process 1 is in the middle of its flush while a get of the same
\* process and a recovery() of process 2 wait for the shared lock.
C15_Witness ==
  \E t, u, w \in Threads :
    /\ pc[t] = "w_flush2" /\ ProcOf(t) = 1
    /\ pc[u] = "g_lock" /\ ProcOf(u) = 1
    /\ pc[w] = "r_lock" /\ ProcOf(w) = 2

\* The bytes the appends of a history put in the log, in order.
RECURSIVE LogOf(_)
LogOf(recs) ==
  IF recs = << >> THEN << >>
  ELSE LET w == recs[Len(recs)]
       IN LogOf(SubSeq(recs, 1, Len(recs) - 1))
            \o SubSeq(pack_record(CHOOSE ts \in Timestamps : TRUE,
                                  encode(w.key), encode(w.val)), 1, w.len)

\* The keys and values of the entries of a history that belong to process p.
KeysValuesOf(recs, p) ==
  LET mine == SelectSeq(recs, LAMBDA w : w.proc = p)
  IN [i \in 1..Len(mine) |-> << mine[i].key, mine[i].val >>]

\* C16: of the threads of one store at most one is between taking the exclusive
\* file lock and finishing its index update; the log is the records of the
\* appends one after the other, none inside another; and the index updates of a
\* store are made in the order of its records in the log, at most the last
\* record still waiting for its update.
C16_WritesSerializedInProcess ==
  /\ \A p \in Procs : Cardinality({t \in ThreadsOf(p) : pc[t] \in AppendPcs}) <= 1
  /\ disk[DefaultPath] = LogOf(written)
  /\ \A p \in Procs :
       LET ups  == KeysValuesOf(updates, p)
           recs == KeysValuesOf(written, p)
       IN /\ Len(ups) <= Len(recs) /\ Len(recs) <= Len(ups) + 1
          /\ ups = SubSeq(recs, 1, Len(ups))

\* One thread of process 1 is in the middle of its flush while the other thread
\* of process 1, inside set or delete as well, waits for the mutex; an earlier
\* update of the index has been made.
C16_Witness ==
  \E t, u \in ThreadsOf(1) :
    /\ pc[t] = "w_flush2" /\ pc[u] = "w_mutex"
    /\ mutex[1] = t
    /\ updates # << >>

\* C17: a thread that is not inside a call holds no lock: the read handle of a
\* call that has returned or raised holds no shared lock, the exclusive lock of
\* an append handle and the mutex of a store are held only by a thread that is
\* still inside set or delete, also after a line under the lock has raised.
C17_LocksAlwaysReleased ==
  /\ \A t \in Threads :
       pc[t] \in {"idle", "done"} => (~shlock[t] /\ mutex[ProcOf(t)] # t)
  /\ \A t \in Threads : shlock[t] => pc[t] \in ReadPcs \cup {"g_unlock", "r_unlock"}
  /\ \A p \in Procs :
       exlock[p] => \E t \in ThreadsOf(p) : pc[t] \in AppendPcs \cup {"w_unlock"}
  /\ \A p \in Procs :
       mutex[p] # 0 => pc[mutex[p]] \in WritePcs \ {"w_mutex"}

\* A set or delete whose flush raised after the header had reached the file has
\* returned: its store holds neither the exclusive lock nor the mutex.
C17_Witness ==
  \E t \in Threads :
    /\ pc[t] = "done" /\ loc[t].op \in {"set", "delete"} /\ loc[t].state = "failed"
    /\ loc[t].idx # 0 /\ ~written[loc[t].idx].full
    /\ ~exlock[ProcOf(t)] /\ mutex[ProcOf(t)] = 0

\* C19: when no thread has called set or delete and the log holds a live value
\* for k, a get(k) that a thread has finished, with a thread of the same process
\* having called recovery(), has returned that value: neither not-found nor an
\* exception.
C19_ReadsStableDuringResync ==
  \A t \in Threads :
    ( /\ pc[t] = "done" /\ loc[t].op = "get"
      /\ \A u \in Threads : loc[u].op \notin {"set", "delete"}
      /\ \E u \in ThreadsOf(ProcOf(t)) \ {t} : loc[u].op = "recovery"
      /\ ExpectedRead(written, loc[t].key).found )
    => ( /\ ~loc[t].raised
         /\ loc[t].found
         /\ loc[t].out = ExpectedRead(written, loc[t].key).out )

====
